---- MODULE Spec2Model ----
(***************************************************************************)
(* Model of the jules-scratch diagnostic scripts:                          *)
(*   measure_disk.py   measure_occulting_disk  (threshold scan)            *)
(*   measure_sun.py    measure_sun_disk        (gradient extremum)         *)
(*   verification/verify_composite.py  run     (headless screenshot)       *)
(*                                                                         *)
(* An image is represented by its mode and by the one row both measuring   *)
(* scripts read, the row at center_y = height // 2.  A pixel is the tuple  *)
(* of its bands; getpixel hands a single-band pixel back as a bare number  *)
(* and a multi-band pixel as a tuple.  Pixel coordinates are 0-based as in *)
(* the source, so sample x of a row is row[x + 1].                         *)
(***************************************************************************)
EXTENDS Integers, Sequences, FiniteSets, TLC

VARIABLES image, disk, disk_runs, sun, sun_runs,
          pc, server, playwright, browser, page, exc, stdout, screenshot, calls, runs

measure_vars == <<image, disk, disk_runs, sun, sun_runs>>
run_vars == <<pc, server, playwright, browser, page, exc, stdout, screenshot, calls, runs>>
vars == <<image, disk, disk_runs, sun, sun_runs,
          pc, server, playwright, browser, page, exc, stdout, screenshot, calls, runs>>

-----------------------------------------------------------------------------
(* Bounds *)

\* widest row of which every colouring over the palette is an input
MaxW == 4
\* widest row carrying a disk profile (background, halo, disk plateau)
MaxProfileW == 9
\* widest halo on one side of a disk profile
MaxHalo == 3
\* how often each measuring script is run on the image
MaxMeasureRuns == 2
\* how often the screenshot script is run
MaxRuns == 3

-----------------------------------------------------------------------------
(* Images *)

Modes == {"L", "RGB", "RGBA"}

Palette(mode) ==
    CASE mode = "L"    -> {<<0>>, <<100>>, <<200>>, <<255>>}
      [] mode = "RGB"  -> {<<0, 0, 0>>, <<3, 3, 4>>, <<4, 4, 3>>, <<255, 255, 255>>}
      [] mode = "RGBA" -> {<<0, 0, 0, 255>>, <<3, 3, 4, 255>>, <<4, 4, 3, 0>>,
                           <<255, 255, 255, 255>>}

\* a grey pixel of brightness v in the given mode
Grey(mode, v) ==
    CASE mode = "L"    -> <<v>>
      [] mode = "RGB"  -> <<v, v, v>>
      [] mode = "RGBA" -> <<v, v, v, 255>>

HaloLevels == {11, 84, 85, 127, 128, 254}

\* background 0, a plateau of 255 on [a, b], a halo of brightness h that is
\* kl samples wide left of the plateau and kr samples wide right of it
ProfileRow(mode, W, a, b, kl, kr, h) ==
    [i \in 1..W |->
        LET x == i - 1
        IN  Grey(mode, IF a <= x /\ x <= b THEN 255
                       ELSE IF (a - kl <= x /\ x < a) \/ (b < x /\ x <= b + kr)
                            THEN h ELSE 0)]

GenericImages ==
    UNION { UNION { {[mode |-> m, row |-> r] : r \in [1..w -> Palette(m)]}
                    : w \in 1..MaxW } : m \in Modes }

PlateauImages ==
    UNION { UNION { {[mode |-> m, row |-> ProfileRow(m, W, a, b, 0, 0, 0)]
                        : a \in 0..b} : b \in 0..(W - 1) }
            : <<m, W>> \in Modes \X (1..MaxProfileW) }

HaloImages ==
    UNION { UNION { UNION { {[mode |-> m, row |-> ProfileRow(m, W, a, b, kl, kr, h)]
                                : kr \in {k \in 2..MaxHalo : b + k <= W - 1} }
                            : kl \in {k \in 2..MaxHalo : a - k >= 0} }
                    : <<a, b>> \in {ab \in (0..(W - 1)) \X (0..(W - 1)) : ab[1] <= ab[2]} }
            : <<m, W, h>> \in {"L", "RGB"} \X (1..MaxProfileW) \X HaloLevels }

\* the 100-sample row with a centred 40-sample plateau
EndToEndImages == {[mode |-> m, row |-> ProfileRow(m, 100, 30, 69, 0, 0, 0)] : m \in Modes}

Images == GenericImages \cup PlateauImages \cup HaloImages \cup EndToEndImages

Width(img) == Len(img.row)

-----------------------------------------------------------------------------
(* measure_occulting_disk *)

Threshold == 10

\* sum(pixel[:3]): the first three bands of a multi-band pixel
RECURSIVE SumBands(_, _)
SumBands(pixel, n) ==
    IF n = 0 THEN 0 ELSE pixel[n] + SumBands(pixel, n - 1)

Brightness(img, x) ==
    LET pixel == img.row[x + 1]
    IN  SumBands(pixel, IF Len(pixel) < 3 THEN Len(pixel) ELSE 3)

\* variant: the comparison looks for a dark sample
IsBright_inverted(img, x) == Brightness(img, x) <= Threshold

\* variant: a sample at the threshold already counts as bright
IsBright_inclusive(img, x) == Brightness(img, x) >= Threshold

IsBright(img, x) == Brightness(img, x) > Threshold

\* for x in range(center_x, width): first bright x, else the initial value
RECURSIVE RightScan(_, _, _)
RightScan(img, x, default) ==
    IF x >= Width(img) THEN default
    ELSE IF IsBright(img, x) THEN x
    ELSE RightScan(img, x + 1, default)

\* variant: the leftward scan runs down to index 0, range(center_x, -1, -1)
RECURSIVE LeftScan_toZero(_, _, _)
LeftScan_toZero(img, x, default) ==
    IF x < 0 THEN default
    ELSE IF IsBright(img, x) THEN x
    ELSE LeftScan_toZero(img, x - 1, default)

\* for x in range(center_x, 0, -1): first bright x, else the initial value
RECURSIVE LeftScan(_, _, _)
LeftScan(img, x, default) ==
    IF x <= 0 THEN default
    ELSE IF IsBright(img, x) THEN x
    ELSE LeftScan(img, x - 1, default)

NoDisk == [status |-> "none", right_edge |-> 0, left_edge |-> 0, diameter |-> 0]

\* variant: the scans start where the previous run's rightward scan ended
measure_occulting_disk_resumed(img) ==
    LET center_x == IF disk.status = "ok" THEN disk.right_edge ELSE Width(img) \div 2
        right_edge == RightScan(img, center_x, center_x)
        left_edge == LeftScan(img, center_x, center_x)
    IN  IF Len(img.row[center_x + 1]) = 1
        THEN [status |-> "TypeError", right_edge |-> 0, left_edge |-> 0, diameter |-> 0]
        ELSE [status |-> "ok", right_edge |-> right_edge, left_edge |-> left_edge,
              diameter |-> right_edge - left_edge]

measure_occulting_disk(img) ==
    LET center_x == Width(img) \div 2
        right_edge == RightScan(img, center_x, center_x)
        left_edge == LeftScan(img, center_x, center_x)
    IN  IF Len(img.row[center_x + 1]) = 1
        THEN \* getpixel returned a number: pixel[:3] raises TypeError
             [status |-> "TypeError", right_edge |-> 0, left_edge |-> 0, diameter |-> 0]
        ELSE [status |-> "ok", right_edge |-> right_edge, left_edge |-> left_edge,
              diameter |-> right_edge - left_edge]

MeasureDisk ==
    /\ disk_runs < MaxMeasureRuns
    /\ disk' = measure_occulting_disk(image)
    /\ disk_runs' = disk_runs + 1
    /\ UNCHANGED <<image, sun, sun_runs>>
    /\ UNCHANGED run_vars

-----------------------------------------------------------------------------
(* measure_sun_disk *)

\* img.convert('L'): ITU-R 601-2 luma of the colour bands, alpha dropped
ConvertL(img) ==
    [mode |-> "L",
     row |-> [i \in 1..Width(img) |->
                LET pixel == img.row[i]
                IN  IF Len(pixel) = 1 THEN pixel
                    ELSE <<(pixel[1] * 19595 + pixel[2] * 38470 + pixel[3] * 7471
                            + 32768) \div 65536>>]]

\* [img.getpixel((x, center_y)) for x in range(width)]
Pixels(img) == [i \in 1..Width(img) |-> img.row[i][1]]

\* variant: the central difference is taken at the two end samples as well
GradientTerms_central(W, x) == [hi |-> x + 1, lo |-> x - 1, span |-> 2]

\* np.gradient reads f[hi] and f[lo] for sample x and divides by the spacing:
\* f[x+1] - f[x-1] over 2 inside, a one-sided difference over 1 at both ends
GradientTerms(W, x) ==
    IF x = 0 THEN [hi |-> 1, lo |-> 0, span |-> 1]
    ELSE IF x = W - 1 THEN [hi |-> W - 1, lo |-> W - 2, span |-> 1]
    ELSE [hi |-> x + 1, lo |-> x - 1, span |-> 2]

\* the sample of index x; an index outside the row is recorded in reads
At(f, x) == IF x >= 0 /\ x < Len(f) THEN f[x + 1] ELSE 0

\* twice the gradient, which keeps the halves of the central difference
\* integral; argmax and argmin are the same for g and for 2 * g
Gradient2(f) ==
    [i \in 1..Len(f) |->
        LET t == GradientTerms(Len(f), i - 1)
        IN  (At(f, t.hi) - At(f, t.lo)) * (2 \div t.span)]

GradientReads(W) ==
    UNION { {GradientTerms(W, x).hi, GradientTerms(W, x).lo} : x \in 0..(W - 1) }

\* variant: the last index of the largest value
RECURSIVE ArgMaxIn_last(_, _, _)
ArgMaxIn_last(g, lo, hi) ==
    IF lo >= hi THEN lo
    ELSE LET mid == (lo + hi) \div 2
             l == ArgMaxIn_last(g, lo, mid)
             r == ArgMaxIn_last(g, mid + 1, hi)
         IN  IF g[r + 1] >= g[l + 1] THEN r ELSE l

\* np.argmax over the samples lo..hi: the first index of the largest value
\* (the left half wins a tie)
RECURSIVE ArgMaxIn(_, _, _)
ArgMaxIn(g, lo, hi) ==
    IF lo >= hi THEN lo
    ELSE LET mid == (lo + hi) \div 2
             l == ArgMaxIn(g, lo, mid)
             r == ArgMaxIn(g, mid + 1, hi)
         IN  IF g[r + 1] > g[l + 1] THEN r ELSE l

ArgMax(g) == ArgMaxIn(g, 0, Len(g) - 1)

\* variant: the last index of the smallest value
RECURSIVE ArgMinIn_last(_, _, _)
ArgMinIn_last(g, lo, hi) ==
    IF lo >= hi THEN lo
    ELSE LET mid == (lo + hi) \div 2
             l == ArgMinIn_last(g, lo, mid)
             r == ArgMinIn_last(g, mid + 1, hi)
         IN  IF g[r + 1] <= g[l + 1] THEN r ELSE l

\* np.argmin over the samples lo..hi: the first index of the smallest value
RECURSIVE ArgMinIn(_, _, _)
ArgMinIn(g, lo, hi) ==
    IF lo >= hi THEN lo
    ELSE LET mid == (lo + hi) \div 2
             l == ArgMinIn(g, lo, mid)
             r == ArgMinIn(g, mid + 1, hi)
         IN  IF g[r + 1] < g[l + 1] THEN r ELSE l

ArgMin(g) == ArgMinIn(g, 0, Len(g) - 1)

NoSun == [status |-> "none", pixels |-> <<>>, reads |-> {},
          left_edge |-> 0, right_edge |-> 0, diameter |-> 0]

\* variant: the edges are the outermost samples brighter than a threshold
\* of 20 instead of the extrema of the gradient
measure_sun_disk_threshold(img) ==
    LET pixels == Pixels(ConvertL(img))
        lit == {x \in 0..(Len(pixels) - 1) : pixels[x + 1] > 20}
        left_edge == IF lit = {} THEN 0 ELSE CHOOSE x \in lit : \A y \in lit : x <= y
        right_edge == IF lit = {} THEN Len(pixels) - 1
                      ELSE CHOOSE x \in lit : \A y \in lit : y <= x
    IN  [status |-> "ok", pixels |-> pixels, reads |-> 0..(Len(pixels) - 1),
         left_edge |-> left_edge, right_edge |-> right_edge,
         diameter |-> right_edge - left_edge]

measure_sun_disk(img) ==
    LET pixels == Pixels(ConvertL(img))
        gradient == Gradient2(pixels)
        left_edge == ArgMax(gradient)
        right_edge == ArgMin(gradient)
    IN  IF Len(pixels) < 2
        THEN \* np.gradient needs at least edge_order + 1 = 2 samples
             [status |-> "ValueError", pixels |-> pixels, reads |-> {},
              left_edge |-> 0, right_edge |-> 0, diameter |-> 0]
        ELSE [status |-> "ok", pixels |-> pixels, reads |-> GradientReads(Len(pixels)),
              left_edge |-> left_edge, right_edge |-> right_edge,
              diameter |-> right_edge - left_edge]

MeasureSun ==
    /\ sun_runs < MaxMeasureRuns
    /\ sun' = measure_sun_disk(image)
    /\ sun_runs' = sun_runs + 1
    /\ UNCHANGED <<image, disk, disk_runs>>
    /\ UNCHANGED run_vars

-----------------------------------------------------------------------------
(* verify_composite.py: run *)

\* what the page at localhost:3000 does when it is asked for the composite
Servers == {"up", "down", "slow"}

NoExc == [type |-> "none", by |-> "none"]
Raised(type, by) == [type |-> type, by |-> by]

\* run() is called: with sync_playwright() as p
Start ==
    /\ pc \in {"idle", "returned", "raised"}
    /\ runs < MaxRuns
    /\ pc' = "launch"
    /\ server' \in Servers
    /\ playwright' = TRUE
    /\ browser' = "none"
    /\ page' = FALSE
    /\ exc' = NoExc
    /\ stdout' = <<>>
    /\ calls' = <<>>
    /\ UNCHANGED <<screenshot, runs>>
    /\ UNCHANGED measure_vars

\* browser = p.chromium.launch(headless=True)
Launch ==
    /\ pc = "launch"
    /\ calls' = Append(calls, "launch")
    /\ \/ /\ browser' = "open"
          /\ pc' = "new_page"
          /\ exc' = exc
       \/ /\ browser' = browser
          /\ exc' = Raised("Error", "launch")
          /\ pc' = "exit"
    /\ UNCHANGED <<server, playwright, page, stdout, screenshot, runs>>
    /\ UNCHANGED measure_vars

\* page = browser.new_page(), before the try statement is entered
NewPage ==
    /\ pc = "new_page"
    /\ calls' = Append(calls, "new_page")
    /\ \/ /\ page' = TRUE
          /\ pc' = "goto"
          /\ exc' = exc
       \/ /\ page' = page
          /\ exc' = Raised("Error", "new_page")
          /\ pc' = "exit"
    /\ UNCHANGED <<server, playwright, browser, stdout, screenshot, runs>>
    /\ UNCHANGED measure_vars

\* page.goto(url, timeout=10000)
Goto ==
    /\ pc = "goto"
    /\ calls' = Append(calls, "goto")
    /\ \/ /\ server = "up"
          /\ pc' = "screenshot"
          /\ exc' = exc
       \/ /\ server = "down"
          /\ exc' = Raised("Error", "goto")
          /\ pc' = "except"
       \/ /\ server = "slow"
          /\ exc' = Raised("TimeoutError", "goto")
          /\ pc' = "except"
    /\ UNCHANGED <<server, playwright, browser, page, stdout, screenshot, runs>>
    /\ UNCHANGED measure_vars

\* page.screenshot(path=...)
Screenshot ==
    /\ pc = "screenshot"
    /\ calls' = Append(calls, "screenshot")
    /\ \/ /\ screenshot' = TRUE
          /\ pc' = "finally"
          /\ exc' = exc
       \/ /\ screenshot' = screenshot
          /\ exc' = Raised("Error", "screenshot")
          /\ pc' = "except"
    /\ UNCHANGED <<server, playwright, browser, page, stdout, runs>>
    /\ UNCHANGED measure_vars

\* except Exception as e: print(f"An error occurred: {e}")
Except ==
    /\ pc = "except"
    /\ stdout' = Append(stdout, exc)
    /\ exc' = NoExc
    /\ pc' = "finally"
    /\ UNCHANGED <<server, playwright, browser, page, screenshot, calls, runs>>
    /\ UNCHANGED measure_vars

\* finally: browser.close()
Finally ==
    /\ pc = "finally"
    /\ calls' = Append(calls, "close")
    /\ browser' = "closed"
    /\ page' = FALSE
    /\ \/ exc' = exc
       \/ exc' = Raised("Error", "close")
    /\ pc' = "exit"
    /\ UNCHANGED <<server, playwright, stdout, screenshot, runs>>
    /\ UNCHANGED measure_vars

\* the with statement is left and run() ends, returning or raising exc
Exit ==
    /\ pc = "exit"
    /\ playwright' = FALSE
    /\ pc' = IF exc = NoExc THEN "returned" ELSE "raised"
    /\ runs' = runs + 1
    /\ UNCHANGED <<server, browser, page, exc, stdout, screenshot, calls>>
    /\ UNCHANGED measure_vars

-----------------------------------------------------------------------------
(* Specifications *)

InitMeasure ==
    /\ image \in Images
    /\ disk = NoDisk
    /\ disk_runs = 0
    /\ sun = NoSun
    /\ sun_runs = 0

RunIdle ==
    /\ pc = "idle"
    /\ server = "up"
    /\ playwright = FALSE
    /\ browser = "none"
    /\ page = FALSE
    /\ exc = NoExc
    /\ stdout = <<>>
    /\ screenshot = FALSE
    /\ calls = <<>>
    /\ runs = 0

\* the measuring scripts, run on one image
Init == InitMeasure /\ RunIdle

Next == MeasureDisk \/ MeasureSun

Spec == Init /\ [][Next]_vars

\* the screenshot script; no image is measured
NoImage == [mode |-> "none", row |-> <<>>]

InitRun ==
    /\ RunIdle
    /\ image = NoImage
    /\ disk = NoDisk
    /\ disk_runs = 0
    /\ sun = NoSun
    /\ sun_runs = 0

NextRun == Start \/ Launch \/ NewPage \/ Goto \/ Screenshot \/ Except \/ Finally \/ Exit

SpecRun == InitRun /\ [][NextRun]_vars

-----------------------------------------------------------------------------
(* Properties of measure_occulting_disk *)

Center == Width(image) \div 2

\* the image has pixels of several bands, so that sum(pixel[:3]) is defined
Multiband(img) == \A i \in 1..Width(img) : Len(img.row[i]) > 1

\* the colour bands of every sample are 255 on [a, b] and 0 elsewhere
DiskPlateau(img, a, b) ==
    \A x \in 0..(Width(img) - 1) :
        \A c \in 1..(IF Len(img.row[x + 1]) < 3 THEN Len(img.row[x + 1]) ELSE 3) :
            img.row[x + 1][c] = IF a <= x /\ x <= b THEN 255 ELSE 0

CenteredPlateaus ==
    {ab \in (0..Center) \X (Center..(Width(image) - 1)) : DiskPlateau(image, ab[1], ab[2])}

\* C1 as stated: on a row that is 0 except for a plateau of 255 on [a, b]
\* holding the centre index, the threshold scan returns left_edge = a and
\* right_edge = b, so diameter = b - a.
C1_PlateauEdges ==
    (disk.status # "none" /\ Multiband(image)) =>
        \A ab \in CenteredPlateaus :
            /\ disk.status = "ok"
            /\ disk.left_edge = ab[1]
            /\ disk.right_edge = ab[2]
            /\ disk.diameter = ab[2] - ab[1]

\* C1 amended: on such a row of a multi-band image both scans stop at the
\* sample they start on, so left_edge = right_edge = W // 2 and diameter = 0.
C1_PlateauCentre ==
    (disk.status # "none" /\ Multiband(image)) =>
        \A ab \in CenteredPlateaus :
            /\ disk.status = "ok"
            /\ disk.left_edge = Center
            /\ disk.right_edge = Center
            /\ disk.diameter = 0

C1_Witness ==
    /\ disk.status = "ok"
    /\ Width(image) = 100
    /\ DiskPlateau(image, 30, 69)

BrightRight == {x \in Center..(Width(image) - 1) : IsBright(image, x)}
BrightLeft == {x \in 0..Center : IsBright(image, x)}

\* C6: in each direction the returned edge is the first sample, going
\* outward from W // 2, whose combined brightness exceeds 10: right_edge is
\* the smallest such index in [W // 2, W - 1] and left_edge the largest such
\* index in [0, W // 2], whenever one exists.
C6_FirstBright ==
    disk.status = "ok" =>
        /\ BrightRight # {} =>
              /\ disk.right_edge \in BrightRight
              /\ \A x \in BrightRight : disk.right_edge <= x
        /\ BrightLeft # {} =>
              /\ disk.left_edge \in BrightLeft
              /\ \A x \in BrightLeft : x <= disk.left_edge

\* C10: whenever the threshold scan returns,
\* left_edge <= W // 2 <= right_edge <= W - 1 and left_edge >= min(1, W // 2),
\* so 0 <= diameter <= W - 1.
C10_EdgeOrder ==
    disk.status = "ok" =>
        /\ disk.left_edge <= Center
        /\ Center <= disk.right_edge
        /\ disk.right_edge <= Width(image) - 1
        /\ disk.left_edge >= (IF Center < 1 THEN Center ELSE 1)
        /\ disk.diameter >= 0
        /\ disk.diameter <= Width(image) - 1

C10_Witness ==
    /\ disk.status = "ok"
    /\ Width(image) >= 4
    /\ IsBright(image, 0)
    /\ disk.left_edge = 1
    /\ disk.right_edge = Width(image) - 1

-----------------------------------------------------------------------------
(* Properties of measure_sun_disk *)

\* the brightness row is 255 on [a, b], h on the kl samples before a and on
\* the kr samples after b, and 0 elsewhere
SunProfile(f, a, b, kl, kr, h) ==
    \A x \in 0..(Len(f) - 1) :
        f[x + 1] = IF a <= x /\ x <= b THEN 255
                   ELSE IF (a - kl <= x /\ x < a) \/ (b < x /\ x <= b + kr)
                        THEN h ELSE 0

\* the pairs <<a, b>> with 0 < a <= b < W - 1 of which the row is the plateau
InnerPlateaus(f) ==
    {ab \in (1..(Len(f) - 2)) \X (1..(Len(f) - 2)) :
        ab[1] <= ab[2] /\ SunProfile(f, ab[1], ab[2], 0, 0, 0)}

\* C2 as stated: on a plateau of 255 on [a, b] with 0 < a <= b < W - 1 the
\* gradient policy returns left_edge = a and right_edge = b.
C2_PlateauEdges ==
    sun.status = "ok" =>
        \A ab \in InnerPlateaus(sun.pixels) :
            /\ sun.left_edge = ab[1]
            /\ sun.right_edge = ab[2]

\* C2 amended: on such a plateau left_edge = a - 1, and right_edge = b when
\* a < b and b < W - 2, and right_edge = b + 1 otherwise.
C2_PlateauShifted ==
    sun.status = "ok" =>
        \A ab \in InnerPlateaus(sun.pixels) :
            /\ sun.left_edge = ab[1] - 1
            /\ sun.right_edge = IF ab[1] < ab[2] /\ ab[2] < Len(sun.pixels) - 2
                                THEN ab[2] ELSE ab[2] + 1

C2_Witness ==
    /\ sun.status = "ok"
    /\ \E ab \in InnerPlateaus(sun.pixels) :
          /\ 2 <= ab[1]
          /\ ab[1] < ab[2]
          /\ ab[2] < Len(sun.pixels) - 2

\* C4: for a row of width W >= 2 the gradient is computed, every sample
\* index it reads lies in 0..W-1, and both edges lie in 0..W-1.
C4_ReadsInRange ==
    (sun.status # "none" /\ Len(sun.pixels) >= 2) =>
        /\ sun.status = "ok"
        /\ sun.reads \subseteq 0..(Len(sun.pixels) - 1)
        /\ sun.left_edge \in 0..(Len(sun.pixels) - 1)
        /\ sun.right_edge \in 0..(Len(sun.pixels) - 1)

\* a measured row whose plateau touches index 0 and one whose plateau
\* touches index W - 1 are both covered; this is the first
C4_Witness ==
    /\ sun.status = "ok"
    /\ Len(sun.pixels) >= 3
    /\ \E b \in 0..(Len(sun.pixels) - 2) : SunProfile(sun.pixels, 0, b, 0, 0, 0)
    /\ 0 \in sun.reads
    /\ Len(sun.pixels) - 1 \in sun.reads

\* twice g[x] of the claim, written out on the row
ClaimGradient2(f, x) ==
    IF x = 0 THEN 2 * (f[2] - f[1])
    ELSE IF x = Len(f) - 1 THEN 2 * (f[Len(f)] - f[Len(f) - 1])
    ELSE f[x + 2] - f[x]

\* C7: for a row of width W >= 2, left_edge is the lowest index at which
\* the gradient g is largest, right_edge the lowest index at which it is
\* smallest, and diameter = right_edge - left_edge.
C7_Extrema ==
    (sun.status # "none" /\ Len(sun.pixels) >= 2) =>
        LET f == sun.pixels
            X == 0..(Len(f) - 1)
        IN  /\ sun.status = "ok"
            /\ sun.left_edge \in X
            /\ sun.right_edge \in X
            /\ \A x \in X :
                  /\ ClaimGradient2(f, x) <= ClaimGradient2(f, sun.left_edge)
                  /\ x < sun.left_edge =>
                        ClaimGradient2(f, x) < ClaimGradient2(f, sun.left_edge)
                  /\ ClaimGradient2(f, x) >= ClaimGradient2(f, sun.right_edge)
                  /\ x < sun.right_edge =>
                        ClaimGradient2(f, x) > ClaimGradient2(f, sun.right_edge)
            /\ sun.diameter = sun.right_edge - sun.left_edge

\* both extrema are attained at several indices
C7_Witness ==
    /\ sun.status = "ok"
    /\ sun.diameter < 0
    /\ \E x \in 0..(Len(sun.pixels) - 1) :
          /\ x > sun.left_edge
          /\ ClaimGradient2(sun.pixels, x) = ClaimGradient2(sun.pixels, sun.left_edge)
    /\ \E x \in 0..(Len(sun.pixels) - 1) :
          /\ x > sun.right_edge
          /\ ClaimGradient2(sun.pixels, x) = ClaimGradient2(sun.pixels, sun.right_edge)

\* the <<a, b, kl, kr>> for which the row is a disk on [a, b] inside a halo
\* at least 2 samples wide on each side that touches neither end of the row
HaloProfiles(f) ==
    {q \in (3..(Len(f) - 4)) \X (3..(Len(f) - 4)) \X (2..MaxHalo) \X (2..MaxHalo) :
        /\ q[1] <= q[2]
        /\ q[1] - q[3] >= 1
        /\ q[2] + q[4] <= Len(f) - 2
        /\ SunProfile(f, q[1], q[2], q[3], q[4], f[q[1]])}

\* C9 as stated: for every halo brightness h with 10 < h < 255 the
\* gradient policy returns left_edge in {a - 1, a} and right_edge in
\* {b, b + 1}.
C9_HaloAnyLevel ==
    sun.status = "ok" =>
        \A q \in HaloProfiles(sun.pixels) :
            LET h == sun.pixels[q[1]]
            IN  (10 < h /\ h < 255) =>
                    /\ sun.left_edge \in {q[1] - 1, q[1]}
                    /\ sun.right_edge \in {q[2], q[2] + 1}

\* C9 amended: the same for every halo brightness h with 10 < h < 85.
C9_HaloFaint ==
    sun.status = "ok" =>
        \A q \in HaloProfiles(sun.pixels) :
            LET h == sun.pixels[q[1]]
            IN  (10 < h /\ h < 85) =>
                    /\ sun.left_edge \in {q[1] - 1, q[1]}
                    /\ sun.right_edge \in {q[2], q[2] + 1}

\* a halo of brightness 84 that starts at index 1 and ends at index W - 2
C9_Witness ==
    /\ sun.status = "ok"
    /\ \E q \in HaloProfiles(sun.pixels) :
          /\ sun.pixels[q[1]] = 84
          /\ q[1] - q[3] = 1
          /\ q[2] + q[4] = Len(sun.pixels) - 2

-----------------------------------------------------------------------------
(* Both measuring scripts *)

-----------------------------------------------------------------------------
(* Properties of run *)

Called(name) == \E i \in 1..Len(calls) : calls[i] = name

\* C5: once the browser is launched, run() ends only after browser.close()
\* was called, and an exception raised by navigation is printed and does
\* not leave run().
C5_AlwaysClosed ==
    (pc \in {"returned", "raised"} /\ browser # "none") =>
        /\ Called("close")
        /\ exc.by # "goto"
        /\ (Called("goto") /\ server # "up") =>
              \E i \in 1..Len(stdout) : stdout[i].by = "goto"

====
